---- MODULE Spec2Model ----
(***************************************************************************)
(* Model of fastapi_versioning/versioning.py: VersionedFastAPI partitions  *)
(* the routes of an application into one sub-application per version,      *)
(* accumulating routes over ascending versions, and optionally mounts a    *)
(* "latest" or "legacy" alias sub-application.                             *)
(*                                                                         *)
(* A route object is identified by its index in app.routes.  One call of  *)
(* VersionedFastAPI is followed through its steps by pc.                   *)
(***************************************************************************)
EXTENDS Integers, Sequences, FiniteSets, TLC

\* Bound: the largest number of routes registered on the input application.
MaxRoutes == 3

(***************************************************************************)
(* The input application's routes.                                         *)
(***************************************************************************)
\* An endpoint that carries no _api_version attribute.
NoVersion == <<>>

\* version(major, minor): the decorator sets func._api_version.
api_version(major, minor) == <<major, minor>>

\* route.methods is a set of strings; a sequence here is an order in which
\* iterating that set delivers its members.  The other order of the two-method
\* set is this universe with GET and POST exchanged.
MethodOrders == {<<"GET">>, <<"POST">>, <<"POST", "GET">>}

EndpointVersions == {NoVersion, api_version(1, 1), api_version(2, 0)}

\* The handlers that can be registered: every method set and version on one
\* path, and one more path.
APIRoutes ==
  [kind : {"APIRoute"}, path : {"/a"}, methods : MethodOrders,
   api_version : EndpointVersions]
  \cup
  [kind : {"APIRoute"}, path : {"/b"}, methods : {<<"GET">>},
   api_version : {api_version(2, 0)}]

Mounts ==
  [kind : {"Mount"}, path : {"/static"}, methods : {<<>>},
   api_version : {NoVersion}]

Routes == APIRoutes \cup Mounts

RECURSIVE SeqsUpTo(_, _)
SeqsUpTo(S, n) ==
  IF n = 0 THEN {<<>>}
  ELSE LET shorter == SeqsUpTo(S, n - 1)
       IN  shorter \cup {Append(s, x) : s \in {t \in shorter : Len(t) = n - 1}, x \in S}

RouteLists == SeqsUpTo(Routes, MaxRoutes)

\* Format templates: a sequence of literal pieces and placeholders.
DefaultVersionFormat == <<"{major}", ".", "{minor}">>
DefaultPrefixFormat == <<"/v", "{major}", "_", "{minor}">>
PrefixFormats == {DefaultPrefixFormat, <<"/v", "{major}">>}

Arguments ==
  [version_format : {DefaultVersionFormat},
   prefix_format : PrefixFormats,
   default_version : {<<1, 0>>},
   enable_latest : BOOLEAN,
   enable_legacy : BOOLEAN]

(***************************************************************************)
(* Helpers of the function.                                                *)
(***************************************************************************)
filter_api_routes(route) == route.kind = "APIRoute"

\* Mutant of filter_static_mounts: every route passes.
filter_static_mounts_all(route) == route.kind \in {"Mount", "APIRoute"}

filter_static_mounts(route) == route.kind = "Mount"

\* filter(pred, app.routes), as the indices of the routes kept.
ApiRouteIds(routes) ==
  SelectSeq([i \in 1..Len(routes) |-> i], LAMBDA i : filter_api_routes(routes[i]))

StaticMountIds(routes) ==
  SelectSeq([i \in 1..Len(routes) |-> i], LAMBDA i : filter_static_mounts(routes[i]))

\* Mutant of version_to_route: the endpoint's attribute is not read.
version_to_route_default(routes, id, default_version) == <<default_version, id>>

\* getattr(api_route.endpoint, "_api_version", default_version), with the route.
version_to_route(routes, id, default_version) ==
  <<IF routes[id].api_version = NoVersion THEN default_version
    ELSE routes[id].api_version, id>>

\* str.format(major=..., minor=...)
RECURSIVE Format(_, _, _)
Format(fmt, major, minor) ==
  IF fmt = <<>> THEN ""
  ELSE LET piece == IF Head(fmt) = "{major}" THEN ToString(major)
                    ELSE IF Head(fmt) = "{minor}" THEN ToString(minor)
                    ELSE Head(fmt)
       IN  piece \o Format(Tail(fmt), major, minor)

\* Tuple comparison of (major, minor).
VersionLess(a, b) == a[1] < b[1] \/ (a[1] = b[1] /\ a[2] < b[2])

\* An insertion-ordered dict is a sequence of entries [key, value].
DictKeys(d) == [i \in 1..Len(d) |-> d[i].key]

DictValues(d) == [i \in 1..Len(d) |-> d[i].value]

DictHas(d, k) == \E i \in 1..Len(d) : d[i].key = k

DictGet(d, k) == d[CHOOSE i \in 1..Len(d) : d[i].key = k].value

\* d[k] = v: an existing key keeps its position, a new key goes last.
DictSet(d, k, v) ==
  IF DictHas(d, k)
  THEN [i \in 1..Len(d) |-> IF d[i].key = k THEN [key |-> k, value |-> v] ELSE d[i]]
  ELSE Append(d, [key |-> k, value |-> v])

\* version_route_mapping[version].append(route), for each pair in order.
RECURSIVE GroupByVersion(_, _)
GroupByVersion(mapping, version_routes) ==
  IF version_routes = <<>> THEN mapping
  ELSE LET v == Head(version_routes)[1]
           r == Head(version_routes)[2]
           old == IF DictHas(mapping, v) THEN DictGet(mapping, v) ELSE <<>>
       IN  GroupByVersion(DictSet(mapping, v, Append(old, r)), Tail(version_routes))

\* sorted(keys): ascending by tuple comparison.
RECURSIVE SortedSet(_)
SortedSet(S) ==
  IF S = {} THEN <<>>
  ELSE LET least == CHOOSE a \in S : \A b \in S \ {a} : VersionLess(a, b)
       IN  <<least>> \o SortedSet(S \ {least})

\* Mutant of sorted: the keys in insertion order.
sorted_not(keys) == keys

sorted(keys) == SortedSet({keys[i] : i \in 1..Len(keys)})

\* Mutant of RouteKey: the method left out of the key.
RouteKeyPathOnly(path, method) == path

\* route.path + "|" + method
RouteKey(path, method) == path \o "|" \o method

\* unique_routes[key] = route, for each method of a route.
RECURSIVE AddMethods(_, _, _, _)
AddMethods(unique, routes, id, methods) ==
  IF methods = <<>> THEN unique
  ELSE AddMethods(DictSet(unique, RouteKey(routes[id].path, Head(methods)), id),
                  routes, id, Tail(methods))

\* The loop over version_route_mapping[version].
RECURSIVE AddRoutes(_, _, _)
AddRoutes(unique, routes, ids) ==
  IF ids = <<>> THEN unique
  ELSE AddRoutes(AddMethods(unique, routes, Head(ids), routes[Head(ids)].methods),
                 routes, Tail(ids))

\* FastAPI(title=..., version=semver) with its router's routes filled in.
VersionedApp(semver, routeIds) ==
  [kind |-> "FastAPI", version |-> semver, routes |-> routeIds, of |-> 0]

\* parent_app.mount(path, app)
MountEntry(path, subapp) ==
  [kind |-> "Mount", path |-> path, name |-> "", tag |-> "", app |-> subapp]

\* @parent_app.get(path, name=semver, tags=[tag]) on noop.
GetEntry(path, semver, tag) ==
  [kind |-> "APIRoute", path |-> path, name |-> semver, tag |-> tag,
   app |-> [kind |-> "noop", version |-> "", routes |-> <<>>, of |-> 0]]

\* parent_app.mount(api_mount.path, api_mount.app, api_mount.name)
StaticEntry(routes, id) ==
  [kind |-> "Mount", path |-> routes[id].path, name |-> "static", tag |-> "",
   app |-> [kind |-> "ASGIApp", version |-> "", routes |-> <<>>, of |-> id]]

\* "/latest" if enable_latest else ""
AliasPrefix(enable_latest) == IF enable_latest THEN "/latest" ELSE ""

\* version if enable_latest else default_version
AliasVersion(enable_latest, loop_version, default_version) ==
  IF enable_latest THEN loop_version ELSE default_version

(***************************************************************************)
(* State.                                                                  *)
(***************************************************************************)
VARIABLES
  pc,                    \* position in VersionedFastAPI
  app_routes,            \* app.routes
  args,                  \* the keyword arguments of the call
  version_route_mapping, \* version -> routes of that version, insertion-ordered
  static_mounts,         \* the routes the static filter keeps
  unique_routes,         \* "path|method" -> route, insertion-ordered
  versions,              \* sorted(version_route_mapping.keys())
  done,                  \* how many of versions the loop has processed
  version,               \* the local variable version; Unbound until assigned
  parent_app,            \* parent_app.router.routes
  raised                 \* the exception that ended the call, or ""

vars == <<pc, app_routes, args, version_route_mapping, static_mounts,
          unique_routes, versions, done, version, parent_app, raised>>

Unbound == <<>>

Init ==
  /\ pc = "call"
  /\ app_routes = <<>>
  /\ args = [version_format |-> DefaultVersionFormat,
             prefix_format |-> DefaultPrefixFormat,
             default_version |-> <<1, 0>>,
             enable_latest |-> FALSE,
             enable_legacy |-> FALSE]
  /\ version_route_mapping = <<>>
  /\ static_mounts = <<>>
  /\ unique_routes = <<>>
  /\ versions = <<>>
  /\ done = 0
  /\ version = Unbound
  /\ parent_app = <<>>
  /\ raised = ""

\* Lines 46-67: classify, group by version, sort the versions.
VersionedFastAPI ==
  /\ pc = "call"
  /\ \E routes \in RouteLists, a \in Arguments :
       LET ids == ApiRouteIds(routes)
           version_routes ==
             [i \in 1..Len(ids) |-> version_to_route(routes, ids[i], a.default_version)]
           mapping == GroupByVersion(<<>>, version_routes)
       IN  /\ app_routes' = routes
           /\ args' = a
           /\ version_route_mapping' = mapping
           /\ static_mounts' = StaticMountIds(routes)
           /\ versions' = sorted(DictKeys(mapping))
              \* for version, route in version_routes: leaves version bound
           /\ version' = IF version_routes = <<>> THEN Unbound
                         ELSE version_routes[Len(version_routes)][1]
           /\ pc' = IF mapping = <<>> THEN "after_loop" ELSE "loop"
  /\ unique_routes' = <<>>
  /\ done' = 0
  /\ parent_app' = <<>>
  /\ raised' = ""

\* Lines 68-90: one iteration of the loop over the sorted versions.
LoopBody ==
  /\ pc = "loop"
  /\ LET v == versions[done + 1]
         prefix == Format(args.prefix_format, v[1], v[2])
         semver == Format(args.version_format, v[1], v[2])
         unique == AddRoutes(unique_routes, app_routes,
                             DictGet(version_route_mapping, v))
         versioned_app == VersionedApp(semver, DictValues(unique))
     IN  /\ version' = v
         /\ unique_routes' = unique
         /\ parent_app' = parent_app \o
              <<MountEntry(prefix, versioned_app),
                GetEntry(prefix \o "/docs", semver, "Documentations"),
                GetEntry(prefix \o "/openapi.json", semver, "Versions")>>
  /\ done' = done + 1
  /\ pc' = IF done + 1 = Len(versions) THEN "after_loop" ELSE "loop"
  /\ UNCHANGED <<app_routes, args, version_route_mapping, static_mounts,
                 versions, raised>>

\* Line 92 false, line 112: no alias is asked for.
Return ==
  /\ pc = "after_loop"
  /\ ~(args.enable_latest \/ args.enable_legacy)
  /\ pc' = "done"
  /\ UNCHANGED <<app_routes, args, version_route_mapping, static_mounts,
                 unique_routes, versions, done, version, parent_app, raised>>

\* Line 94 with enable_latest and version never assigned: UnboundLocalError.
AliasRaises ==
  /\ pc = "after_loop"
  /\ args.enable_latest
  /\ version = Unbound
  /\ raised' = "UnboundLocalError"
  /\ pc' = "raised"
  /\ UNCHANGED <<app_routes, args, version_route_mapping, static_mounts,
                 unique_routes, versions, done, version, parent_app>>

\* Lines 92-112: the alias sub-application and the static mounts.
Alias ==
  /\ pc = "after_loop"
  /\ args.enable_latest \/ args.enable_legacy
  /\ args.enable_latest => version # Unbound
  /\ LET prefix == AliasPrefix(args.enable_latest)
         mm == AliasVersion(args.enable_latest, version, args.default_version)
         semver == Format(args.version_format, mm[1], mm[2])
         versioned_app == VersionedApp(semver, DictValues(unique_routes))
     IN  parent_app' = parent_app \o
           [k \in 1..Len(static_mounts) |-> StaticEntry(app_routes, static_mounts[k])] \o
           <<MountEntry(prefix, versioned_app)>>
  /\ pc' = "done"
  /\ UNCHANGED <<app_routes, args, version_route_mapping, static_mounts,
                 unique_routes, versions, done, version, raised>>

Next == VersionedFastAPI \/ LoopBody \/ Return \/ AliasRaises \/ Alias

Spec == Init /\ [][Next]_vars

(***************************************************************************)
(* Vocabulary of the properties, computed from the input alone.            *)
(***************************************************************************)
Range(s) == {s[i] : i \in 1..Len(s)}

ApiIds == {i \in 1..Len(app_routes) : app_routes[i].kind = "APIRoute"}

StaticIds == {i \in 1..Len(app_routes) : app_routes[i].kind = "Mount"}

\* The effective tag of a versionable route.
EffectiveTag(i) ==
  IF app_routes[i].api_version = NoVersion THEN args.default_version
  ELSE app_routes[i].api_version

VersionsPresent == {EffectiveTag(i) : i \in ApiIds}

Before(a, b) == a[1] < b[1] \/ (a[1] = b[1] /\ a[2] < b[2])

AtMost(a, b) == a = b \/ Before(a, b)

HighestPresent == CHOOSE v \in VersionsPresent : \A w \in VersionsPresent : AtMost(w, v)

\* A key is a pair <<path, method>>.
KeysOf(i) == {<<app_routes[i].path, m>> : m \in Range(app_routes[i].methods)}

Defines(i, k) == k \in KeysOf(i)

KeysUpTo(V) == UNION {KeysOf(i) : i \in {j \in ApiIds : AtMost(EffectiveTag(j), V)}}

\* The route that defines k at the highest version <= V, the last registered
\* one among those of that version.
Expected(k, V) ==
  LET cands == {i \in ApiIds : Defines(i, k) /\ AtMost(EffectiveTag(i), V)}
  IN  CHOOSE i \in cands :
        \A j \in cands \ {i} :
          \/ Before(EffectiveTag(j), EffectiveTag(i))
          \/ (EffectiveTag(j) = EffectiveTag(i) /\ j < i)

CumulativeRouteSet(V) == {Expected(k, V) : k \in KeysUpTo(V)}

\* A template with major and minor substituted, piece by piece from the left.
RECURSIVE Substituted(_, _, _)
Substituted(fmt, n, V) ==
  IF n = 0 THEN ""
  ELSE Substituted(fmt, n - 1, V) \o
       (CASE fmt[n] = "{major}" -> ToString(V[1])
          [] fmt[n] = "{minor}" -> ToString(V[2])
          [] OTHER -> fmt[n])

Label(V) == Substituted(args.version_format, Len(args.version_format), V)

Prefix(V) == Substituted(args.prefix_format, Len(args.prefix_format), V)

\* The parent's entries by what they are.
MountIdx == {i \in 1..Len(parent_app) : parent_app[i].kind = "Mount"}

AliasPrefixes == {"/latest", ""}

SubAppIdx == {i \in MountIdx : parent_app[i].app.kind = "FastAPI"}

VersionMountIdx == {i \in SubAppIdx : parent_app[i].path \notin AliasPrefixes}

AliasMountIdx == {i \in SubAppIdx : parent_app[i].path \in AliasPrefixes}

StaticMountIdx == {i \in MountIdx : parent_app[i].app.kind = "ASGIApp"}

\* The version sub-applications built for version V.
SubAppsOf(V) == {i \in VersionMountIdx : parent_app[i].app.version = Label(V)}

\* The route of a route list that answers key k: routes are tried in list
\* order and the first whose path and methods match handles the request
\* (0: none matches).
Serves(routeIds, k) ==
  LET hits == {n \in 1..Len(routeIds) : Defines(routeIds[n], k)}
  IN  IF hits = {} THEN 0
      ELSE routeIds[CHOOSE n \in hits : \A m \in hits : n <= m]

(***************************************************************************)
(* C1: every version sub-application, once built and ever after, answers   *)
(* each key defined at a version <= its own with the route registered at   *)
(* the highest such version (the last registered one of that version).     *)
(***************************************************************************)
C1_ServesHighestVersion ==
  \A V \in VersionsPresent : \A i \in SubAppsOf(V) : \A k \in KeysUpTo(V) :
    Serves(parent_app[i].app.routes, k) = Expected(k, V)

(***************************************************************************)
(* C2: for versions V1 < V2, every key answered by the sub-application of  *)
(* V1 is answered by that of V2, and by the same route unless a route of a *)
(* version in (V1, V2] defines the key.                                    *)
(***************************************************************************)
C2_MonotonicInheritance ==
  \A V1 \in VersionsPresent, V2 \in VersionsPresent :
    Before(V1, V2) =>
      \A i \in SubAppsOf(V1), j \in SubAppsOf(V2) : \A k \in KeysUpTo(V1) :
        LET r1 == Serves(parent_app[i].app.routes, k)
            r2 == Serves(parent_app[j].app.routes, k)
        IN  r1 # 0 =>
              /\ r2 # 0
              /\ \/ r2 = r1
                 \/ \E n \in ApiIds :
                      /\ Defines(n, k)
                      /\ Before(V1, EffectiveTag(n))
                      /\ AtMost(EffectiveTag(n), V2)

(***************************************************************************)
(* C3: with enable_legacy alone, the alias at the root prefix has as its   *)
(* routes the cumulative route table of default_version.                   *)
(***************************************************************************)
C3_LegacyIsDefaultVersionTable ==
  (pc = "done" /\ args.enable_legacy /\ ~args.enable_latest) =>
    /\ Cardinality(AliasMountIdx) = 1
    /\ \A a \in AliasMountIdx :
         /\ parent_app[a].path = ""
         /\ Range(parent_app[a].app.routes) = CumulativeRouteSet(args.default_version)

(***************************************************************************)
(* C4: with enable_latest and at least one versionable route, the call     *)
(* returns with one alias, mounted at /latest, labelled with the highest   *)
(* version present and holding that version's cumulative route table.      *)
(***************************************************************************)
C4_LatestIsHighestVersionTable ==
  (args.enable_latest /\ VersionsPresent # {}) =>
    /\ pc # "raised"
    /\ pc = "done" =>
         /\ Cardinality(AliasMountIdx) = 1
         /\ \A a \in AliasMountIdx :
              /\ parent_app[a].path = "/latest"
              /\ parent_app[a].app.version = Label(HighestPresent)
              /\ Range(parent_app[a].app.routes) = CumulativeRouteSet(HighestPresent)

\* Scenario C and an override: two versions, a key of the lower one replaced
\* and a key added at the higher one, behind /latest.
C4_Witness ==
  /\ pc = "done"
  /\ args.enable_latest
  /\ Cardinality(VersionsPresent) = 2
  /\ \E i \in ApiIds, j \in ApiIds, n \in ApiIds :
       /\ Before(EffectiveTag(i), EffectiveTag(j))
       /\ KeysOf(i) = KeysOf(j)
       /\ app_routes[n].path = "/b"
  /\ \E a \in AliasMountIdx : Cardinality(Range(parent_app[a].app.routes)) = 2

(***************************************************************************)
(* C5: no two sub-applications (version or alias) are ever mounted on the  *)
(* parent at the same prefix.                                              *)
(***************************************************************************)
C5_NoDuplicatePrefix ==
  \A i \in SubAppIdx, j \in SubAppIdx :
    i # j => parent_app[i].path # parent_app[j].path

(***************************************************************************)
(* C6: without versionable routes the call does not raise, builds no       *)
(* version sub-application, and mounts a requested alias with no routes.   *)
(***************************************************************************)
C6_NoRoutesIsNotAnError ==
  (pc # "call" /\ ApiIds = {}) =>
    /\ pc # "raised"
    /\ VersionMountIdx = {}
    /\ (pc = "done" /\ (args.enable_latest \/ args.enable_legacy)) =>
         /\ Cardinality(AliasMountIdx) = 1
         /\ \A a \in AliasMountIdx :
              /\ parent_app[a].path = IF args.enable_latest THEN "/latest" ELSE ""
              /\ parent_app[a].app.routes = <<>>

(***************************************************************************)
(* C7: the static routes are mounted on the parent, each once at its own   *)
(* path, exactly when an alias is mounted; a returned parent has an alias  *)
(* exactly when a flag asks for one; no static route is in the route list  *)
(* of a sub-application.                                                   *)
(***************************************************************************)
C7_StaticMountsOnlyWithAlias ==
  /\ \A i \in SubAppIdx : Range(parent_app[i].app.routes) \cap StaticIds = {}
  /\ AliasMountIdx = {} => StaticMountIdx = {}
  /\ AliasMountIdx # {} =>
       /\ \A m \in StaticMountIdx :
            /\ parent_app[m].app.of \in StaticIds
            /\ parent_app[m].path = app_routes[parent_app[m].app.of].path
       /\ \A id \in StaticIds :
            Cardinality({m \in StaticMountIdx : parent_app[m].app.of = id}) = 1
  /\ pc = "done" =>
       (AliasMountIdx # {} <=> (args.enable_latest \/ args.enable_legacy))

C7_Witness ==
  /\ pc = "done"
  /\ AliasMountIdx # {}
  /\ Cardinality(StaticMountIdx) = 2
  /\ VersionMountIdx # {}

(***************************************************************************)
(* C8: with both flags the call returns one alias, at /latest, with the    *)
(* label and table of the highest version present, and none at the root;   *)
(* with neither flag it returns no alias.                                  *)
(***************************************************************************)
C8_LatestTakesPrecedence ==
  /\ (pc # "call" /\ args.enable_latest /\ args.enable_legacy) =>
       /\ pc # "raised"
       /\ pc = "done" =>
            /\ Cardinality(AliasMountIdx) = 1
            /\ \A a \in AliasMountIdx :
                 /\ parent_app[a].path = "/latest"
                 /\ VersionsPresent # {} =>
                      /\ parent_app[a].app.version = Label(HighestPresent)
                      /\ Range(parent_app[a].app.routes) =
                           CumulativeRouteSet(HighestPresent)
  /\ (pc = "done" /\ ~args.enable_latest /\ ~args.enable_legacy) =>
       AliasMountIdx = {}

(***************************************************************************)
(* C9: once the loop has ended there is exactly one version                *)
(* sub-application per effective version tag of the versionable routes,    *)
(* mounted at prefix_format and labelled version_format, each with major   *)
(* and minor substituted.                                                  *)
(***************************************************************************)
C9_OneSubAppPerEffectiveVersion ==
  pc \in {"after_loop", "done", "raised"} =>
    /\ Cardinality(VersionMountIdx) = Cardinality(VersionsPresent)
    /\ \A V \in VersionsPresent :
         /\ Cardinality(SubAppsOf(V)) = 1
         /\ \A i \in SubAppsOf(V) : parent_app[i].path = Prefix(V)

\* A default-tagged and two explicitly tagged routes under the default formats.
C9_Witness ==
  /\ pc = "done"
  /\ Cardinality(VersionsPresent) = 3
  /\ \E i \in ApiIds : app_routes[i].api_version = NoVersion
  /\ \E i \in VersionMountIdx :
       parent_app[i].path = "/v1_0" /\ parent_app[i].app.version = "1.0"
  /\ \E i \in VersionMountIdx :
       parent_app[i].path = "/v2_0" /\ parent_app[i].app.version = "2.0"

(***************************************************************************)
(* C10: on the parent, version sub-applications are mounted in ascending   *)
(* version order, and the alias after every other mount.                   *)
(***************************************************************************)
C10_MountOrder ==
  /\ \A V \in VersionsPresent, W \in VersionsPresent :
       \A i \in SubAppsOf(V), j \in SubAppsOf(W) : i < j => Before(V, W)
  /\ \A a \in AliasMountIdx : \A m \in MountIdx \ {a} : m < a
  /\ \A a \in AliasMountIdx : parent_app[a].path = "" => a = Len(parent_app)

\* Routes registered in descending version order, a static mount, legacy alias.
C10_Witness ==
  /\ pc = "done"
  /\ \E i \in ApiIds, j \in ApiIds : i < j /\ Before(EffectiveTag(j), EffectiveTag(i))
  /\ StaticMountIdx # {}
  /\ \E a \in AliasMountIdx : parent_app[a].path = ""

====
